---- MODULE Spec2Model ----
(***************************************************************************)
(* Model of the breksta capture-to-cache pipeline.                         *)
(*                                                                         *)
(*   - the Reading Store        src/app/database.py      (PmtDb)           *)
(*   - the Incremental Cache    src/app/cache_module.py  (CacheWebProcess) *)
(*   - the Experiment Controller src/app/capture_signal.py (DeviceCapture),*)
(*     src/ui/central_controlpanel.py (CentralizedControlManager),         *)
(*     src/ui/capture_controlpanel.py (CaptureControlUI/Manager)           *)
(*   - the Pause/Resume signal  src/ui/chart_manager.py                    *)
(*                                                                         *)
(* Four specifications share the variables:                                *)
(*   Spec          the store driven by arbitrary PmtDb calls               *)
(*   SpecPipeline  the producer writing while the consumer uses the cache  *)
(*   SpecPoll      the same with handle_data_update as the only cache call *)
(*   SpecCtl       the Qt controller: buttons, queued slots, timer         *)
(***************************************************************************)
EXTENDS Integers, Sequences, FiniteSets, TLC

(***************************************************************************)
(* Bounds of the model.                                                    *)
(***************************************************************************)
\* the wall clock runs from 0 to MaxTime
MaxTime == 2
\* start_experiment is explored while the id it would assign is <= MaxExp
MaxExp == 2
\* write_reading is explored while the reading table has fewer rows
MaxReadings == 2
\* the consumer is explored for this many cache calls
MaxCalls == 2
\* the controller's wall clock runs from 0 to MaxCtlTime (two sampling periods)
MaxCtlTime == 4
MaxPolls == 8
\* the frames handed to downsample_data have at most MaxRows rows
MaxRows == 5
\* downsample_data is called with a stride of 1 .. MaxStep
MaxStep == 3
\* and with a row threshold (max_points) of 0 .. MaxPoints
MaxPoints == 2

(***************************************************************************)
(* Values of the model.                                                    *)
(***************************************************************************)
\* Python's None, for an id and for a datetime (both are >= 0 otherwise)
None == -1
\* the experiment names typed into the name box
Names == {"run-1"}
\* the values a device read can produce
Values == {10, 12}
\* the experiment ids a caller can pass (an id names no row until it is assigned)
ExpIds == 1 .. MaxExp

\* chart_manager.START_SIGNAL / STOP_SIGNAL, the two contents of the control file
START_SIGNAL == "1"
STOP_SIGNAL == "0"
\* the sampling period in seconds (CaptureControlUI.DEFAULT_EXPERIMENT_POLLRATE)
Period == 2
\* the outcomes of opening the ADC: initialize_adc returns a device or None
Devices == {"ok", "failed"}

VARIABLES
    now,               \* datetime.now(): the wall clock both processes read
    experiment,        \* table "experiment": set of rows
    reading,           \* table "reading": rows in insertion (rowid) order
    experiment_id,     \* PmtDb.experiment_id
    start_time,        \* PmtDb.start_time
    pending,           \* the PmtReading built by write_reading, not yet committed
    returned,          \* history: the ids that start_experiment has returned so far
    op,                \* the operation the last step executed
    result,            \* how that operation ended: "ok" or the exception raised
    cached_data,       \* CacheWebProcess.cached_data: id -> frame
    last_datetime,     \* CacheWebProcess.last_datetime
    current_datetime,  \* CacheWebProcess.current_datetime
    c_pc,              \* consumer position: "idle", or "update" inside handle_data_update
    c_id,              \* the experiment_id argument of the consumer's current/last call
    c_seen,            \* how many reading rows were committed when that call began
    c_calls,           \* how many cache calls the consumer has begun
    start_button,      \* CaptureControlUI.start_button.isEnabled()
    stop_button,       \* CaptureControlUI.stop_button.isEnabled()
    posted,            \* Qt event queue: the queued slot invocations not yet delivered
    timer_active,      \* sampling_timer.isActive()
    timer_next,        \* the time at which the sampling timer next expires
    timer_connected,   \* how many on_timeout closures are connected to timer.timeout
    adc_reader,        \* CentralizedControlManager.adc_reader: "None", "ok" or "failed" (adc is None)
    control,           \* content of the control file app/control.txt
    dc_experiment_id,  \* DeviceCapture.experiment_id
    csv_files,         \* the CSV files export_data_single has written
    instances,         \* ADCReader._instances: reader class -> its instance
    bus_opens,         \* how many times initialize_adc has been called
    adc_ret,           \* the instance (object id) the last construction returned
    adc_config,        \* the last ADCConfig(...) call: its arguments and the object built
    w_pc,              \* the controller's open control file: "closed" or the signal to write
    f_control,         \* what the consumer's last read_control_file returned
    last_df,           \* fetch_data.last_df: <<>> while the attribute is unset, else <<frame>>
    f_df,              \* what the last fetch_data returned: <<frame>>, or <<>> for None
    queries,           \* how many latest_readings calls the consumer's polls have made
    go_hist,           \* what the RUNNING polls returned: the last one, and the last frame
    emitted,           \* the payloads experiment_started_signal has emitted, in order
    acc_df,            \* the accumulated frame handed to downsample_data
    ds_out             \* the frame the last downsample_data returned

storeVars == <<experiment, reading, experiment_id, start_time, pending, returned>>
cacheVars == <<cached_data, last_datetime, current_datetime, c_pc, c_id, c_seen, c_calls>>
ctlVars == <<start_button, stop_button, posted, timer_active, timer_next,
             timer_connected, adc_reader, control, dc_experiment_id>>
exportVars == <<csv_files>>
adcVars == <<instances, bus_opens, adc_ret, adc_config>>
chartVars == <<w_pc, f_control, last_df, f_df, queries, go_hist>>
sigVars == <<emitted>>
figVars == <<acc_df, ds_out>>
auxVars == <<exportVars, adcVars, chartVars, sigVars, figVars>>
vars == <<now, storeVars, op, result, cacheVars, ctlVars, auxVars>>

(***************************************************************************)
(* Helpers over the tables.                                                *)
(***************************************************************************)
SeqToSet(s) == {s[i] : i \in 1 .. Len(s)}

SetMax(S) == CHOOSE x \in S : \A y \in S : y <= x

\* SELECT ... FROM experiment WHERE id = :id  (.first() / sess.get)
ExperimentRows(id) == {e \in experiment : e.id = id}

ExperimentExists(id) == ExperimentRows(id) # {}

ExperimentRow(id) == CHOOSE e \in experiment : e.id = id

\* "id INTEGER NOT NULL, PRIMARY KEY (id)" is an alias of SQLite's rowid:
\* a new row gets the largest id in the table plus one, 1 in an empty table
NextId == IF experiment = {} THEN 1 ELSE SetMax({e.id : e \in experiment}) + 1

\* the rows with end IS NULL
OpenExperiments == {e \in experiment : e.end = None}

\* the reading rows of one experiment, in table order
RECURSIVE SelectSeq2(_, _, _)
SelectSeq2(s, eid, since) ==
    IF s = <<>> THEN <<>>
    ELSE LET r == Head(s)
             keep == r.experiment = eid /\ (since = None \/ r.ts > since)
         IN  (IF keep THEN <<r>> ELSE <<>>) \o SelectSeq2(Tail(s), eid, since)

(***************************************************************************)
(* PmtDb.start_experiment                                                  *)
(***************************************************************************)
\* start_experiment without its "another is active" check
DbStartExperiment_NoGuard(name) ==
    /\ NextId <= MaxExp
    /\ start_time' = now
    /\ experiment' = experiment \cup
           {[id |-> NextId, name |-> name, start |-> now,
             end |-> None, exported |-> FALSE]}
    /\ experiment_id' = NextId
    /\ returned' = returned \cup {NextId}
    /\ result' = "ok"

\* start_experiment that hands back the id the table held before the insert
DbStartExperiment_StaleId(name) ==
    IF experiment_id # None
    THEN /\ result' = "ValueError"
         /\ UNCHANGED <<experiment, experiment_id, start_time, returned>>
    ELSE /\ NextId <= MaxExp
         /\ start_time' = now
         /\ experiment' = experiment \cup
                {[id |-> NextId, name |-> name, start |-> now,
                  end |-> None, exported |-> FALSE]}
         /\ experiment_id' = IF experiment = {} THEN NextId ELSE NextId - 1
         /\ returned' = returned \cup {experiment_id'}
         /\ result' = "ok"

DbStartExperiment(name) ==
    IF experiment_id # None
    THEN /\ result' = "ValueError"
         /\ UNCHANGED <<experiment, experiment_id, start_time, returned>>
    ELSE /\ NextId <= MaxExp
         /\ start_time' = now
         /\ experiment' = experiment \cup
                {[id |-> NextId, name |-> name, start |-> now,
                  end |-> None, exported |-> FALSE]}
         /\ experiment_id' = NextId
         /\ returned' = returned \cup {NextId}
         /\ result' = "ok"

(***************************************************************************)
(* PmtDb.stop_experiment                                                   *)
(***************************************************************************)
\* stop_experiment that clears the active id but never stamps exp.end
DbStopExperiment_EndNotStamped ==
    IF experiment_id = None
    THEN /\ result' = "ValueError"
         /\ UNCHANGED <<experiment, experiment_id, start_time>>
    ELSE /\ start_time' = None
         /\ experiment_id' = None
         /\ result' = "ok"
         /\ UNCHANGED experiment

\* stop_experiment that returns quietly when no experiment is active
DbStopExperiment_Silent ==
    IF experiment_id = None
    THEN /\ result' = "ok"
         /\ UNCHANGED <<experiment, experiment_id, start_time>>
    ELSE /\ start_time' = None
         /\ IF ~ExperimentExists(experiment_id)
            THEN /\ result' = "ValueError"
                 /\ UNCHANGED <<experiment, experiment_id>>
            ELSE /\ experiment' =
                        {IF e.id = experiment_id THEN [e EXCEPT !.end = now] ELSE e
                            : e \in experiment}
                 /\ experiment_id' = None
                 /\ result' = "ok"

DbStopExperiment ==
    IF experiment_id = None
    THEN /\ result' = "ValueError"
         /\ UNCHANGED <<experiment, experiment_id, start_time>>
    ELSE /\ start_time' = None
         /\ IF ~ExperimentExists(experiment_id)
            THEN /\ result' = "ValueError"
                 /\ UNCHANGED <<experiment, experiment_id>>
            ELSE /\ experiment' =
                        {IF e.id = experiment_id THEN [e EXCEPT !.end = now] ELSE e
                            : e \in experiment}
                 /\ experiment_id' = None
                 /\ result' = "ok"

(***************************************************************************)
(* PmtDb.write_reading.  The row object is built first (it reads           *)
(* self.experiment_id and datetime.now()), then added and committed.  The  *)
(* INSERT fails with IntegrityError when experiment is NULL (the column is *)
(* Mapped[int], hence NOT NULL) or when ts, the primary key, is taken.     *)
(* SQLite does not enforce the foreign key (PRAGMA foreign_keys is off).   *)
(***************************************************************************)
NewReading(val) == [experiment |-> experiment_id, value |-> val, ts |-> now]

\* the INSERT with a nullable experiment column: only a taken ts is refused
InsertFails_NullableExperiment(row) ==
    \E r \in SeqToSet(reading) : r.ts = row.ts

InsertFails(row) ==
    \/ row.experiment = None
    \/ \E r \in SeqToSet(reading) : r.ts = row.ts

DbInsertReading(row) ==
    IF InsertFails(row)
    THEN /\ result' = "IntegrityError"
         /\ UNCHANGED reading
    ELSE /\ reading' = Append(reading, row)
         /\ result' = "ok"

(***************************************************************************)
(* PmtDb.delete_experiment: the experiment row is deleted; no relationship *)
(* is mapped and the foreign key has no ON DELETE, so the reading rows     *)
(* stay.  A missing id is logged and the call returns normally.            *)
(***************************************************************************)
DbDeleteExperiment(id) ==
    /\ experiment' = experiment \ ExperimentRows(id)
    /\ result' = "ok"

(***************************************************************************)
(* PmtDb.latest_readings: None (here the empty sequence tagged by          *)
(* LatestIsNone) when the experiment does not exist or no row matches;     *)
(* otherwise the rows with ts made relative to the experiment's start.     *)
(***************************************************************************)
LatestIsNone(id, since) ==
    \/ ~ExperimentExists(id)
    \/ SelectSeq2(reading, id, since) = <<>>

\* the rows reported with the stored, absolute ts
RelRow_Absolute(r, start) == [ts |-> r.ts, value |-> r.value]

\* one reported row: (ts - expt.start).total_seconds() and the stored value
RelRow(r, start) == [ts |-> r.ts - start, value |-> r.value]

latest_readings(id, since) ==
    IF LatestIsNone(id, since) THEN <<>>
    ELSE LET rows == SelectSeq2(reading, id, since)
             start == ExperimentRow(id).start
         IN  [i \in 1 .. Len(rows) |-> RelRow(rows[i], start)]

\* PmtDb.get_experiments: one tuple per experiment row
get_experiments ==
    {<<e.id, e.name, e.start, e.end, e.exported>> : e \in experiment}

(***************************************************************************)
(* Steps of the store specification.                                       *)
(***************************************************************************)
Tick ==
    /\ now < MaxTime
    /\ now' = now + 1
    /\ op' = "tick"
    /\ UNCHANGED <<auxVars, storeVars, result, cacheVars, ctlVars>>

start_experiment(name) ==
    /\ pending = <<>>
    /\ DbStartExperiment(name)
    /\ op' = "start_experiment"
    /\ UNCHANGED <<auxVars, now, reading, pending, cacheVars, ctlVars>>

stop_experiment ==
    /\ pending = <<>>
    /\ DbStopExperiment
    /\ op' = "stop_experiment"
    /\ UNCHANGED <<auxVars, now, reading, pending, returned, cacheVars, ctlVars>>

write_reading_begin(val) ==
    /\ pending = <<>>
    /\ Len(reading) < MaxReadings
    /\ pending' = <<NewReading(val)>>
    /\ op' = "write_reading_begin"
    /\ UNCHANGED <<auxVars, now, experiment, reading, experiment_id, start_time, returned,
                   result, cacheVars, ctlVars>>

write_reading_commit ==
    /\ pending # <<>>
    /\ DbInsertReading(pending[1])
    /\ pending' = <<>>
    /\ op' = "write_reading"
    /\ UNCHANGED <<auxVars, now, experiment, experiment_id, start_time, returned, cacheVars, ctlVars>>

delete_experiment(id) ==
    /\ pending = <<>>
    /\ DbDeleteExperiment(id)
    /\ op' = "delete_experiment"
    /\ UNCHANGED <<auxVars, now, reading, experiment_id, start_time, pending, returned,
                   cacheVars, ctlVars>>

(***************************************************************************)
(* CacheWebProcess (the consumer process).                                 *)
(***************************************************************************)
\* CacheWebProcess.initialize_empty_cache
initialize_empty_cache == <<>>

\* CacheWebProcess.get_cached_data: the frame, an empty frame for an unknown id
get_cached_data(id) ==
    IF id \in DOMAIN cached_data THEN cached_data[id] ELSE initialize_empty_cache

\* CacheWebProcess.fetch_latest_data
fetch_latest_data(id, last_timestamp) == latest_readings(id, last_timestamp)

\* CacheWebProcess.update_cache: the entry is created before the fetch; a
\* fetch of None returns early, anything else is concatenated to the entry
update_cache(id, last_timestamp) ==
    LET entry == get_cached_data(id)
        merged == IF LatestIsNone(id, last_timestamp) THEN entry
                  ELSE entry \o fetch_latest_data(id, last_timestamp)
    IN  cached_data' = [i \in DOMAIN cached_data \cup {id} |->
                            IF i = id THEN merged ELSE cached_data[i]]

\* CacheWebProcess.handle_data_update, first half: save_datetime
save_datetime(id) ==
    /\ c_pc = "idle"
    /\ c_calls < MaxCalls
    /\ c_calls' = c_calls + 1
    /\ last_datetime' = current_datetime
    /\ current_datetime' = now
    /\ c_pc' = "update"
    /\ c_id' = id
    /\ c_seen' = Len(reading)
    /\ op' = "save_datetime"
    /\ UNCHANGED <<auxVars, now, storeVars, result, cached_data, ctlVars>>

\* CacheWebProcess.handle_data_update, second half: update_cache(id, last_datetime)
handle_data_update ==
    /\ c_pc = "update"
    /\ update_cache(c_id, last_datetime)
    /\ c_pc' = "idle"
    /\ op' = "handle_data_update"
    /\ UNCHANGED <<auxVars, now, storeVars, result, last_datetime, current_datetime, c_id, c_seen, c_calls, ctlVars>>

\* CacheWebProcess.handle_completed_experiment: update_cache(id) with no bound
handle_completed_experiment(id) ==
    /\ c_pc = "idle"
    /\ c_calls < MaxCalls
    /\ c_calls' = c_calls + 1
    /\ update_cache(id, None)
    /\ c_id' = id
    /\ c_seen' = Len(reading)
    /\ op' = "handle_completed_experiment"
    /\ UNCHANGED <<auxVars, now, storeVars, result, last_datetime, current_datetime, c_pc, ctlVars>>

(***************************************************************************)
(* PmtDb.mark_exported and PmtDb.export_data_single.                       *)
(***************************************************************************)
\* the outcomes of df.to_csv: the file is written, or OSError is raised
IOResults == {"ok", "OSError"}

\* mark_exported that flags every experiment row
DbMarkExported_AllRows(id) ==
    IF id # None /\ ExperimentExists(id)
    THEN /\ experiment' = {[e EXCEPT !.exported = TRUE] : e \in experiment}
         /\ result' = "True"
    ELSE /\ result' = "False"
         /\ UNCHANGED experiment

\* PmtDb.mark_exported: True after flagging the row, False for None or a missing id
DbMarkExported(id) ==
    IF id # None /\ ExperimentExists(id)
    THEN /\ experiment' =
                {IF e.id = id THEN [e EXCEPT !.exported = TRUE] ELSE e : e \in experiment}
         /\ result' = "True"
    ELSE /\ result' = "False"
         /\ UNCHANGED experiment

mark_exported(id) ==
    /\ pending = <<>>
    /\ DbMarkExported(id)
    /\ op' = "mark_exported"
    /\ UNCHANGED <<now, reading, experiment_id, start_time, pending, returned,
                   cacheVars, ctlVars, auxVars>>

\* the file name export_data_single builds: experiment name and start stamp
CsvName(e) == <<e.name, e.start>>

\* export_data_single that flags the experiment before it writes the file
export_data_single_MarksFirst(id, io) ==
    /\ pending = <<>>
    /\ IF LatestIsNone(id, None)
       THEN UNCHANGED <<experiment, csv_files>>
       ELSE /\ experiment' =
                   {IF e.id = id THEN [e EXCEPT !.exported = TRUE] ELSE e : e \in experiment}
            /\ csv_files' = IF io = "OSError" THEN csv_files
                            ELSE csv_files \cup {CsvName(ExperimentRow(id))}
    /\ result' = "ok"
    /\ op' = "export_data_single"
    /\ UNCHANGED <<now, reading, experiment_id, start_time, pending, returned,
                   cacheVars, ctlVars, adcVars, chartVars, sigVars, figVars>>

\* PmtDb.export_data_single: returns early when latest_readings is None,
\* catches the OSError of to_csv, and marks the experiment in the else
\* branch of its try, which runs only when the file was written
export_data_single(id, io) ==
    /\ pending = <<>>
    /\ IF LatestIsNone(id, None) \/ io = "OSError"
       THEN UNCHANGED <<experiment, csv_files>>
       ELSE /\ csv_files' = csv_files \cup {CsvName(ExperimentRow(id))}
            /\ experiment' =
                   {IF e.id = id THEN [e EXCEPT !.exported = TRUE] ELSE e : e \in experiment}
    /\ result' = "ok"
    /\ op' = "export_data_single"
    /\ UNCHANGED <<now, reading, experiment_id, start_time, pending, returned,
                   cacheVars, ctlVars, adcVars, chartVars, sigVars, figVars>>

(***************************************************************************)
(* ADCConfig (src/device/adc_config.py).  A poll mode is a record: enum    *)
(* tells a member of ADS1115Mode from a raw value, v is the value.         *)
(***************************************************************************)
\* ADS1115Address: GND (default), VDD, SDA, SCL
ADS1115Address == {72, 73, 74, 75}
ADS1115Address_GND == 72
\* ADS1115Gain: PGA_6_144V (default) ... PGA_0_256V
ADS1115Gain == {0, 1, 2, 4, 8, 16}
ADS1115Gain_PGA_6_144V == 0
\* ADS1115DataRate: DR_ADS111X_8 ... DR_ADS111X_860, DR_ADS111X_128 the default
ADS1115DataRate == 0 .. 7
ADS1115DataRate_DR_ADS111X_128 == 4
\* ADS1115Mode: the members and their values
poll_mode_single == [enum |-> TRUE, v |-> 1]
poll_mode_continuous == [enum |-> TRUE, v |-> 0]
ADS1115ModeValues == {0, 1}

\* the arguments tried for ADCConfig(...)
BusArgs == {1, 3}
AddressArgs == {72, 75, 76}
GainArgs == {0, 16, 3, 10}
DataRateArgs == {4, 7, 9}
PollModeArgs == {poll_mode_single, poll_mode_continuous}
                    \cup {[enum |-> FALSE, v |-> x] : x \in {0, 1, 2, -1}}

\* ADS1115Mode(x): a member is returned as it is, a raw value is looked up
\* among the members' values (ValueError, handled by the caller, otherwise)
ADS1115Mode(x) == [enum |-> TRUE, v |-> x.v]

\* __post_init__ that validates data_rate against the gain table
ADCConfig_post_init_WrongTable(c) ==
    [i2c_bus   |-> c.i2c_bus,
     address   |-> IF c.address \in ADS1115Address THEN c.address ELSE ADS1115Address_GND,
     gain      |-> IF c.gain \in ADS1115Gain THEN c.gain ELSE ADS1115Gain_PGA_6_144V,
     data_rate |-> IF c.data_rate \in ADS1115Gain THEN c.data_rate
                   ELSE ADS1115DataRate_DR_ADS111X_128,
     poll_mode |-> IF c.poll_mode.v \in ADS1115ModeValues THEN ADS1115Mode(c.poll_mode)
                   ELSE poll_mode_single]

\* ADCConfig.__post_init__
ADCConfig_post_init(c) ==
    [i2c_bus   |-> c.i2c_bus,
     address   |-> IF c.address \in ADS1115Address THEN c.address ELSE ADS1115Address_GND,
     gain      |-> IF c.gain \in ADS1115Gain THEN c.gain ELSE ADS1115Gain_PGA_6_144V,
     data_rate |-> IF c.data_rate \in ADS1115DataRate THEN c.data_rate
                   ELSE ADS1115DataRate_DR_ADS111X_128,
     poll_mode |-> IF c.poll_mode.v \in ADS1115ModeValues THEN ADS1115Mode(c.poll_mode)
                   ELSE poll_mode_single]

\* the dataclass defaults
ADCConfigDefault ==
    [i2c_bus |-> 1, address |-> ADS1115Address_GND, gain |-> ADS1115Gain_PGA_6_144V,
     data_rate |-> ADS1115DataRate_DR_ADS111X_128, poll_mode |-> poll_mode_single]

\* ADCConfig(i2c_bus, address, gain, data_rate, poll_mode)
ADCConfig(bus, address, gain, data_rate, poll_mode) ==
    LET args == [i2c_bus |-> bus, address |-> address, gain |-> gain,
                 data_rate |-> data_rate, poll_mode |-> poll_mode]
    IN  /\ adc_config' = [args |-> args, config |-> ADCConfig_post_init(args)]
        /\ result' = "ok"
        /\ op' = "ADCConfig"
        /\ UNCHANGED <<now, storeVars, cacheVars, ctlVars, exportVars, chartVars, sigVars, figVars,
                       instances, bus_opens, adc_ret>>

(***************************************************************************)
(* ADCReader (src/device/adc_run.py) and SineWaveGenerator.                *)
(***************************************************************************)
\* the reader classes
Variants == {"SingleShotADCReader", "ContinuousADCReader", "SineWaveGenerator"}

\* the configurations get_adc_config hands over: two gains in either poll mode
ReaderConfigs ==
    {[ADCConfigDefault EXCEPT !.gain = g, !.poll_mode = m] :
        g \in {ADS1115Gain_PGA_6_144V, 1}, m \in {poll_mode_single, poll_mode_continuous}}

\* init_instance: initialize_adc(config) is called once; is_initialized tells
\* whether it returned a device, and SineWaveGenerator sets it to True
\* afterwards.  config is the configuration the instance's device was opened with
init_instance(cls, config, dev, oid) ==
    [oid |-> oid, adc |-> dev, config |-> config,
     is_initialized |-> (dev = "ok" \/ cls = "SineWaveGenerator")]

\* __new__ with one slot shared by all reader classes
ADCReader_new_SharedSlot(cls, config, dev) ==
    /\ IF DOMAIN instances = {}
       THEN /\ instances' = (cls :> init_instance(cls, config, dev, 1))
            /\ bus_opens' = bus_opens + 1
            /\ adc_ret' = 1
       ELSE /\ adc_ret' = instances[CHOOSE c \in DOMAIN instances : TRUE].oid
            /\ UNCHANGED <<instances, bus_opens>>
    /\ result' = "ok"
    /\ op' = "ADCReader"
    /\ UNCHANGED <<now, storeVars, cacheVars, ctlVars, exportVars, chartVars, sigVars, figVars, adc_config>>

\* __new__ that initialises again whenever the stored instance is not operational
ADCReader_new_RetriesInit(cls, config, dev) ==
    /\ IF cls \notin DOMAIN instances
       THEN LET oid == Cardinality(DOMAIN instances) + 1
            IN  /\ instances' = [c \in DOMAIN instances \cup {cls} |->
                                    IF c = cls THEN init_instance(cls, config, dev, oid)
                                    ELSE instances[c]]
                /\ bus_opens' = bus_opens + 1
                /\ adc_ret' = oid
       ELSE IF ~instances[cls].is_initialized
       THEN /\ instances' = [instances EXCEPT
                                ![cls] = init_instance(cls, config, dev, instances[cls].oid)]
            /\ bus_opens' = bus_opens + 1
            /\ adc_ret' = instances[cls].oid
       ELSE /\ adc_ret' = instances[cls].oid
            /\ UNCHANGED <<instances, bus_opens>>
    /\ result' = "ok"
    /\ op' = "ADCReader"
    /\ UNCHANGED <<now, storeVars, cacheVars, ctlVars, exportVars, chartVars, sigVars, figVars, adc_config>>

\* ADCReader.__new__: the first construction of a class creates the
\* instance, stores it and runs init_instance; later ones return it
ADCReader_new(cls, config, dev) ==
    /\ IF cls \notin DOMAIN instances
       THEN LET oid == Cardinality(DOMAIN instances) + 1
            IN  /\ instances' = [c \in DOMAIN instances \cup {cls} |->
                                    IF c = cls THEN init_instance(cls, config, dev, oid)
                                    ELSE instances[c]]
                /\ bus_opens' = bus_opens + 1
                /\ adc_ret' = oid
       ELSE /\ adc_ret' = instances[cls].oid
            /\ UNCHANGED <<instances, bus_opens>>
    /\ result' = "ok"
    /\ op' = "ADCReader"
    /\ UNCHANGED <<now, storeVars, cacheVars, ctlVars, exportVars, chartVars, sigVars, figVars, adc_config>>

\* ADCConfigManager.get_adc_reader: the reader class of config.poll_mode
get_adc_reader(config) ==
    IF config.poll_mode = poll_mode_single THEN "SingleShotADCReader"
    ELSE "ContinuousADCReader"

\* ADCConfigManager.get_device(config, channel, period): the mock reader when
\* USE_MOCK_DEVICE is "1" (mock), else the reader of the poll mode; either
\* way the class is called with the configuration
ADCConfigManager_get_device(config, mock, dev) ==
    ADCReader_new(IF mock THEN "SineWaveGenerator" ELSE get_adc_reader(config), config, dev)

\* the outcomes of adc.readADC on an open device: a sample, or an I/O error
ReadOutcomes == {"sample", "OSError"}

\* run_adc that reads the device without asking is_operational
run_adc_NoOperationalCheck(cls, out) ==
    /\ cls \in DOMAIN instances
    /\ result' = IF cls = "SineWaveGenerator" THEN "float"
                 ELSE IF instances[cls].adc # "ok" THEN "AttributeError"
                 ELSE IF out = "OSError" THEN "OSError"
                 ELSE "float"
    /\ op' = "run_adc"
    /\ UNCHANGED <<now, storeVars, cacheVars, ctlVars, auxVars>>

\* run_adc of the instance of cls: None when the reader is not operational,
\* else the device is read (SineWaveGenerator computes its sample)
run_adc(cls, out) ==
    /\ cls \in DOMAIN instances
    /\ result' = IF cls = "SineWaveGenerator" THEN "float"
                 ELSE IF ~instances[cls].is_initialized THEN "None"
                 ELSE IF out = "OSError" THEN "OSError"
                 ELSE "float"
    /\ op' = "run_adc"
    /\ UNCHANGED <<now, storeVars, cacheVars, ctlVars, auxVars>>

\* the stores, the cache and the widgets as their constructors leave them
InitObjects ==
    /\ now = 0
    /\ experiment = {}
    /\ reading = <<>>
    /\ experiment_id = None
    /\ start_time = None
    /\ pending = <<>>
    /\ returned = {}
    /\ op = "init"
    /\ result = "ok"
    /\ cached_data = <<>>
    /\ last_datetime = None
    /\ current_datetime = None
    /\ c_pc = "idle"
    /\ c_id = None
    /\ c_seen = 0
    /\ c_calls = 0
    /\ start_button = TRUE
    /\ stop_button = FALSE
    /\ posted = <<>>
    /\ timer_active = FALSE
    /\ timer_next = None
    /\ timer_connected = 0
    /\ adc_reader = "None"
    /\ dc_experiment_id = None
    /\ csv_files = {}
    /\ instances = <<>>
    /\ bus_opens = 0
    /\ adc_ret = None
    /\ adc_config = [args |-> ADCConfigDefault, config |-> ADCConfigDefault]
    /\ w_pc = "closed"
    /\ f_control = "unread"
    /\ last_df = <<>>
    /\ f_df = <<>>
    /\ queries = 0
    /\ go_hist = [last |-> <<>>, found |-> <<>>]
    /\ emitted = <<>>
    /\ ds_out = <<>>

\* the control file as a finished run left it
Init ==
    /\ InitObjects
    /\ control = STOP_SIGNAL
    /\ acc_df = <<>>

Next ==
    \/ Tick
    \/ \E name \in Names : start_experiment(name)
    \/ stop_experiment
    \/ \E val \in Values : write_reading_begin(val)
    \/ write_reading_commit
    \/ \E id \in ExpIds : delete_experiment(id)

Spec == Init /\ [][Next]_vars

(***************************************************************************)
(* Experiment runs: the store is started, written to and stopped, and no   *)
(* experiment is deleted.                                                  *)
(***************************************************************************)
NextRuns ==
    \/ Tick
    \/ \E name \in Names : start_experiment(name)
    \/ stop_experiment
    \/ \E val \in Values : write_reading_begin(val)
    \/ write_reading_commit

SpecRuns == Init /\ [][NextRuns]_vars

(***************************************************************************)
(* Export: the store with the calls of the export tab.                     *)
(***************************************************************************)
NextExport ==
    \/ Tick
    \/ \E name \in Names : start_experiment(name)
    \/ stop_experiment
    \/ \E val \in Values : write_reading_begin(val)
    \/ write_reading_commit
    \/ \E id \in ExpIds, io \in IOResults : export_data_single(id, io)

SpecExport == Init /\ [][NextExport]_vars

\* mark_exported called on the experiments of finished and running runs
NextMark ==
    \/ Tick
    \/ \E name \in Names : start_experiment(name)
    \/ stop_experiment
    \/ \E id \in ExpIds \cup {None} : mark_exported(id)

SpecMark == Init /\ [][NextMark]_vars

(***************************************************************************)
(* The ADC configuration and the reader classes.                           *)
(***************************************************************************)
NextConfig ==
    \E bus \in BusArgs, address \in AddressArgs, gain \in GainArgs,
       data_rate \in DataRateArgs, poll_mode \in PollModeArgs :
        ADCConfig(bus, address, gain, data_rate, poll_mode)

SpecConfig == Init /\ [][NextConfig]_vars

NextAdc ==
    \/ \E config \in ReaderConfigs, mock \in BOOLEAN, dev \in Devices :
          ADCConfigManager_get_device(config, mock, dev)
    \/ \E cls \in Variants, out \in ReadOutcomes : run_adc(cls, out)

SpecAdc == Init /\ [][NextAdc]_vars

(***************************************************************************)
(* The pipeline: the producer process starts, writes and stops, the        *)
(* consumer process updates its cache; their steps interleave.             *)
(***************************************************************************)
NextPipeline ==
    \/ Tick
    \/ \E name \in Names : start_experiment(name)
    \/ stop_experiment
    \/ \E val \in Values : write_reading_begin(val)
    \/ write_reading_commit
    \/ \E id \in ExpIds : save_datetime(id)
    \/ handle_data_update
    \/ \E id \in ExpIds : handle_completed_experiment(id)

SpecPipeline == Init /\ [][NextPipeline]_vars

(***************************************************************************)
(* The polling consumer alone: handle_data_update is its only cache call.  *)
(***************************************************************************)
NextPoll ==
    \/ Tick
    \/ \E name \in Names : start_experiment(name)
    \/ stop_experiment
    \/ \E val \in Values : write_reading_begin(val)
    \/ write_reading_commit
    \/ \E id \in ExpIds : save_datetime(id)
    \/ handle_data_update

SpecPoll == Init /\ [][NextPoll]_vars

(***************************************************************************)
(* The cache of finished experiments and its clearing.                     *)
(***************************************************************************)
\* CacheWebProcess.clear_cache(key): builds an empty frame and returns it;
\* no statement of it reads or assigns self.cached_data
clear_cache(key) ==
    /\ c_pc = "idle"
    /\ c_id' = key
    /\ op' = "clear_cache"
    /\ result' = "ok"
    /\ UNCHANGED <<auxVars, now, storeVars, cached_data, last_datetime, current_datetime,
                   c_pc, c_seen, c_calls, ctlVars>>

NextCache ==
    \/ \E name \in Names : start_experiment(name)
    \/ stop_experiment
    \/ \E val \in Values : write_reading_begin(val)
    \/ write_reading_commit
    \/ \E id \in ExpIds : handle_completed_experiment(id)
    \/ \E key \in ExpIds : clear_cache(key)

SpecCache == Init /\ [][NextCache]_vars

(***************************************************************************)
(* The controller process: a Qt event loop.  The buttons' clicked signals  *)
(* run their directly connected slots at once, in connection order;        *)
(* CentralizedControlManager's slots are connected with QueuedConnection   *)
(* and are delivered later from the event queue.  Qt fixes no order        *)
(* between a queued slot invocation and the expiry of a running timer.     *)
(***************************************************************************)
\* chart_manager.start_chart_process / stop_chart_process
\* start_chart_process and stop_chart_process: the signal is written to the
\* control file; an OSError of open or write is caught and logged
start_chart_process(io) == control' = IF io = "OSError" THEN control ELSE START_SIGNAL
stop_chart_process(io) == control' = IF io = "OSError" THEN control ELSE STOP_SIGNAL

\* stop_button.clicked with the event queue q: stop_button_signal queues
\* on_experiment_stopped and runs DeviceCapture.stop_experiment, then
\* CaptureControlManager.on_stop_button_click swaps the buttons.  An
\* exception raised by a slot is reported by Qt and the next slot runs.
StopButtonClicked(q) ==
    /\ posted' = Append(q, "on_experiment_stopped")
    /\ DbStopExperiment
    /\ dc_experiment_id' = IF result' = "ok" THEN None ELSE dc_experiment_id
    /\ stop_button' = FALSE
    /\ start_button' = TRUE

\* create_experiment that emits before it has the new id
CreateExperiment_EmitsFirst(name) ==
    /\ emitted' = Append(emitted, dc_experiment_id)
    /\ DbStartExperiment(name)
    /\ dc_experiment_id' = IF result' = "ok" THEN experiment_id' ELSE dc_experiment_id

\* DeviceCapture.create_experiment: start_experiment, then the id it
\* returned is stored and emitted; a ValueError of start_experiment ends
\* the slot before both
CreateExperiment(name) ==
    /\ DbStartExperiment(name)
    /\ dc_experiment_id' = IF result' = "ok" THEN experiment_id' ELSE dc_experiment_id
    /\ emitted' = IF result' = "ok" THEN Append(emitted, experiment_id') ELSE emitted

\* start_button.clicked: start_button_signal queues on_experiment_started
\* and runs DeviceCapture.create_experiment, then
\* CaptureControlManager.on_start_button_click swaps the buttons.
start_button_clicked(name) ==
    /\ start_button
    /\ posted' = Append(posted, "on_experiment_started")
    /\ CreateExperiment(name)
    /\ start_button' = FALSE
    /\ stop_button' = TRUE
    /\ op' = "start_button_clicked"
    /\ UNCHANGED <<exportVars, adcVars, chartVars, figVars, now, reading, pending, cacheVars,
                   timer_active, timer_next, timer_connected, adc_reader, control>>

\* the user clicks Stop
stop_button_clicked ==
    /\ stop_button
    /\ StopButtonClicked(posted)
    /\ op' = "stop_button_clicked"
    /\ UNCHANGED <<auxVars, now, reading, pending, returned, cacheVars, timer_active, timer_next,
                   timer_connected, adc_reader, control>>

\* ADCReader.__new__: one instance per reader class; only the first
\* construction opens the device
get_device(dev) == IF adc_reader = "None" THEN dev ELSE adc_reader

\* on_experiment_started that only logs the unavailable device and returns,
\* without clicking Stop
on_experiment_started_NoStopClick(dev, io) ==
    /\ posted # <<>>
    /\ Head(posted) = "on_experiment_started"
    /\ start_chart_process(io)
    /\ adc_reader' = get_device(dev)
    /\ IF adc_reader' = "failed"
       THEN /\ posted' = Tail(posted)
            /\ UNCHANGED <<experiment, experiment_id, start_time, result,
                           dc_experiment_id, start_button, stop_button>>
            /\ UNCHANGED <<timer_active, timer_next, timer_connected>>
       ELSE /\ timer_connected' = timer_connected + 1
            /\ timer_active' = TRUE
            /\ timer_next' = now + Period
            /\ posted' = Tail(posted)
            /\ UNCHANGED <<experiment, experiment_id, start_time, result,
                           dc_experiment_id, start_button, stop_button>>
    /\ op' = "on_experiment_started"
    /\ UNCHANGED <<auxVars, now, reading, pending, returned, cacheVars>>

\* CentralizedControlManager.on_experiment_started, delivered from the queue;
\* with start_reading inlined
on_experiment_started(dev, io) ==
    /\ posted # <<>>
    /\ Head(posted) = "on_experiment_started"
    /\ start_chart_process(io)
    /\ adc_reader' = get_device(dev)
    /\ IF adc_reader' = "failed"
       THEN /\ IF stop_button
               THEN StopButtonClicked(Tail(posted))
               ELSE /\ posted' = Tail(posted)
                    /\ UNCHANGED <<experiment, experiment_id, start_time, result,
                                   dc_experiment_id, start_button, stop_button>>
            /\ UNCHANGED <<timer_active, timer_next, timer_connected>>
       ELSE /\ timer_connected' = timer_connected + 1
            /\ timer_active' = TRUE
            /\ timer_next' = now + Period
            /\ posted' = Tail(posted)
            /\ UNCHANGED <<experiment, experiment_id, start_time, result,
                           dc_experiment_id, start_button, stop_button>>
    /\ op' = "on_experiment_started"
    /\ UNCHANGED <<auxVars, now, reading, pending, returned, cacheVars>>

\* CentralizedControlManager.on_experiment_stopped, delivered from the queue
on_experiment_stopped(io) ==
    /\ posted # <<>>
    /\ Head(posted) = "on_experiment_stopped"
    /\ posted' = Tail(posted)
    /\ stop_chart_process(io)
    /\ timer_active' = FALSE
    /\ timer_connected' = IF adc_reader = "ok" THEN 0 ELSE timer_connected
    /\ op' = "on_experiment_stopped"
    /\ UNCHANGED <<auxVars, now, storeVars, result, cacheVars, start_button, stop_button,
                   timer_next, adc_reader, dc_experiment_id>>

\* the sampling timer expires: on_timeout reads the device and emits
\* output_signal, whose slot DeviceCapture.write_to_database calls
\* PmtDb.write_reading
on_timeout(val) ==
    /\ timer_active
    /\ timer_connected > 0
    /\ now >= timer_next
    /\ Len(reading) < MaxReadings
    /\ timer_next' = timer_next + Period
    /\ DbInsertReading(NewReading(val))
    /\ op' = "on_timeout"
    /\ UNCHANGED <<auxVars, now, experiment, experiment_id, start_time, pending, returned, cacheVars,
                   start_button, stop_button, posted, timer_active, timer_connected,
                   adc_reader, control, dc_experiment_id>>

\* the sampling timer expires and the device read fails: adc.readADC raises
\* inside run_adc (run_adc itself returns None only for a reader that is not
\* operational, and start_reading connects no timer to such a reader), so
\* on_timeout ends before output_signal.emit; Qt reports the exception and
\* the timer keeps running
on_timeout_read_error ==
    /\ timer_active
    /\ timer_connected > 0
    /\ now >= timer_next
    /\ timer_next' = timer_next + Period
    /\ result' = "OSError"
    /\ op' = "on_timeout_read_error"
    /\ UNCHANGED <<auxVars, now, storeVars, cacheVars, start_button, stop_button, posted,
                   timer_active, timer_connected, adc_reader, control, dc_experiment_id>>

\* the controller's clock
TickCtl ==
    /\ now < MaxCtlTime
    /\ now' = now + 1
    /\ op' = "tick"
    /\ UNCHANGED <<auxVars, storeVars, result, cacheVars, ctlVars>>

NextCtl ==
    \/ TickCtl
    \/ \E name \in Names : start_button_clicked(name)
    \/ stop_button_clicked
    \/ \E dev \in Devices : on_experiment_started(dev, "ok")
    \/ on_experiment_stopped("ok")
    \/ \E val \in Values : on_timeout(val)
    \/ on_timeout_read_error

\* the controller finds the control file as the last run left it, finished or not
InitCtl ==
    /\ InitObjects
    /\ control \in {STOP_SIGNAL, START_SIGNAL}
    /\ acc_df = <<>>

SpecCtl == InitCtl /\ [][NextCtl]_vars

(***************************************************************************)
(* DeviceCapture (src/app/capture_signal.py) on its own: its three slots   *)
(* run whenever their signals are emitted.                                 *)
(***************************************************************************)
\* the slot of start_button_signal
create_experiment(name) ==
    /\ CreateExperiment(name)
    /\ op' = "create_experiment"
    /\ UNCHANGED <<exportVars, adcVars, chartVars, figVars, now, reading, pending, cacheVars,
                   start_button, stop_button, posted, timer_active, timer_next,
                   timer_connected, adc_reader, control>>

\* the slot of stop_button_signal: DeviceCapture.stop_experiment
DeviceCapture_stop_experiment ==
    /\ DbStopExperiment
    /\ dc_experiment_id' = IF result' = "ok" THEN None ELSE dc_experiment_id
    /\ op' = "DeviceCapture.stop_experiment"
    /\ UNCHANGED <<auxVars, now, reading, pending, returned, cacheVars, start_button,
                   stop_button, posted, timer_active, timer_next, timer_connected,
                   adc_reader, control>>

\* the slot of output_signal: write_reading, an exception is logged and raised again
write_to_database(val) ==
    /\ Len(reading) < MaxReadings
    /\ DbInsertReading(NewReading(val))
    /\ op' = "write_to_database"
    /\ UNCHANGED <<auxVars, now, experiment, experiment_id, start_time, pending, returned,
                   cacheVars, ctlVars>>

NextCapture ==
    \/ Tick
    \/ \E name \in Names : create_experiment(name)
    \/ DeviceCapture_stop_experiment
    \/ \E val \in Values : write_to_database(val)

SpecCapture == Init /\ [][NextCapture]_vars

(***************************************************************************)
(* The chart's downsampling (src/app/components/figure.py).  A frame is    *)
(* the sequence of its rows; the function is applied to frames of every    *)
(* length up to MaxRows, with every stride and threshold of the bounds.    *)
(***************************************************************************)
\* the frames a caller can pass
Frames == UNION {[1 .. n -> Values] : n \in 0 .. MaxRows}
\* the strides: df.iloc[::step] needs step >= 1 to walk forward (the default is 10)
Steps == 1 .. MaxStep
\* the thresholds (the default is 10**5)
Thresholds == 0 .. MaxPoints

\* df.iloc[::step]: the first row, then the slice of what follows step rows on
RECURSIVE iloc_step(_, _)
iloc_step(df, step) ==
    IF df = <<>> THEN <<>>
    ELSE <<Head(df)>> \o iloc_step(SubSeq(df, step + 1, Len(df)), step)

downsample_data_StrictThreshold(df, step, max_points) ==
    IF Len(df) < max_points THEN df ELSE iloc_step(df, step)

downsample_data(df, step, max_points) ==
    IF Len(df) <= max_points THEN df ELSE iloc_step(df, step)

\* a call downsample_data(acc_df, step, max_points); the argument is only read
call_downsample_data(step, max_points) ==
    /\ ds_out' = downsample_data(acc_df, step, max_points)
    /\ acc_df' = acc_df
    /\ op' = "downsample_data"
    /\ result' = "ok"
    /\ UNCHANGED <<now, storeVars, cacheVars, ctlVars, exportVars, adcVars, chartVars,
                   sigVars>>

InitFigure ==
    /\ InitObjects
    /\ control = STOP_SIGNAL
    /\ acc_df \in Frames

NextFigure ==
    \E step \in Steps, max_points \in Thresholds : call_downsample_data(step, max_points)

SpecFigure == InitFigure /\ [][NextFigure]_vars

(***************************************************************************)
(* The controller of the main window (src/app/breksta.py, CaptureControl)  *)
(* with its store and device (src/app/capture.py).  Its slots are direct:  *)
(* each runs to its end, or to the first exception, within the click.      *)
(* dc_experiment_id stands for CaptureControl.experiment_id here.          *)
(***************************************************************************)
start_chart == control' = START_SIGNAL
stop_chart == control' = STOP_SIGNAL

\* start_button.clicked: start_experiment (assert experiment_id is None),
\* one reading taken at once, the timer started, the buttons swapped and
\* the chart resumed; an exception ends the slot where it is raised
initiate_data_capture(name, val) ==
    /\ start_button
    /\ IF experiment_id # None
       THEN /\ result' = "AssertionError"
            /\ UNCHANGED <<storeVars, dc_experiment_id, timer_active, timer_next,
                           start_button, stop_button, control>>
       ELSE /\ NextId <= MaxExp
            /\ Len(reading) < MaxReadings
            /\ start_time' = now
            /\ experiment' = experiment \cup
                   {[id |-> NextId, name |-> name, start |-> now,
                     end |-> None, exported |-> FALSE]}
            /\ experiment_id' = NextId
            /\ returned' = returned \cup {NextId}
            /\ dc_experiment_id' = NextId
            /\ pending' = pending
            /\ LET row == [experiment |-> NextId, value |-> val, ts |-> now]
               IN  IF InsertFails(row)
                   THEN /\ result' = "IntegrityError"
                        /\ UNCHANGED <<reading, timer_active, timer_next,
                                       start_button, stop_button, control>>
                   ELSE /\ reading' = Append(reading, row)
                        /\ timer_active' = TRUE
                        /\ timer_next' = now + Period
                        /\ start_button' = FALSE
                        /\ stop_button' = TRUE
                        /\ start_chart
                        /\ result' = "ok"
    /\ op' = "initiate_data_capture"
    /\ UNCHANGED <<auxVars, now, cacheVars, posted, timer_connected, adc_reader>>

\* stop_button.clicked: stop_experiment (assert experiment_id is not None),
\* the timer stopped, the buttons swapped back and the chart stopped
terminate_data_capture ==
    /\ stop_button
    /\ IF experiment_id = None
       THEN /\ result' = "AssertionError"
            /\ UNCHANGED <<experiment, experiment_id, start_time, dc_experiment_id,
                           timer_active, start_button, stop_button, control>>
       ELSE /\ start_time' = None
            /\ experiment' =
                   {IF e.id = experiment_id THEN [e EXCEPT !.end = now] ELSE e
                       : e \in experiment}
            /\ experiment_id' = None
            /\ timer_active' = FALSE
            /\ dc_experiment_id' = None
            /\ start_button' = TRUE
            /\ stop_button' = FALSE
            /\ stop_chart
            /\ result' = "ok"
    /\ op' = "terminate_data_capture"
    /\ UNCHANGED <<auxVars, now, reading, pending, returned, cacheVars, posted,
                   timer_next, timer_connected, adc_reader>>

\* sample_timer.timeout: DevCapture.take_reading writes one reading
take_reading(val) ==
    /\ timer_active
    /\ now >= timer_next
    /\ Len(reading) < MaxReadings
    /\ timer_next' = timer_next + Period
    /\ DbInsertReading(NewReading(val))
    /\ op' = "take_reading"
    /\ UNCHANGED <<auxVars, now, experiment, experiment_id, start_time, pending, returned,
                   cacheVars, start_button, stop_button, posted, timer_active,
                   timer_connected, adc_reader, control, dc_experiment_id>>

NextLegacy ==
    \/ TickCtl
    \/ \E name \in Names, val \in Values : initiate_data_capture(name, val)
    \/ terminate_data_capture
    \/ \E val \in Values : take_reading(val)

\* CaptureControl.__init__ ends with start_chart()
InitLegacy ==
    /\ InitObjects
    /\ control = START_SIGNAL
    /\ acc_df = <<>>

SpecLegacy == InitLegacy /\ [][NextLegacy]_vars

(***************************************************************************)
(* The control file between the two processes, and the consumer's poll     *)
(* (src/app/chart.py, draw_chart): read_control_file, then fetch_data.     *)
(* A frame is a sequence of rows; a returned frame df is kept as <<df>>    *)
(* and a returned None as <<>>.                                            *)
(***************************************************************************)
GO_SIGNAL == "1"
\* pd.DataFrame()
EmptyFrame == <<>>

\* open(CONTROL_FILE, "w"): the file is truncated when it is opened; what
\* file.write put in the buffer reaches the file when the with block closes it
open_control_file(sig) ==
    /\ w_pc = "closed"
    /\ w_pc' = sig
    /\ control' = ""
    /\ op' = "open_control_file"
    /\ UNCHANGED <<now, storeVars, result, cacheVars, start_button, stop_button, posted,
                   timer_active, timer_next, timer_connected, adc_reader,
                   dc_experiment_id, exportVars, adcVars, sigVars, figVars, f_control, last_df, f_df,
                   queries, go_hist>>

close_control_file ==
    /\ w_pc # "closed"
    /\ control' = w_pc
    /\ w_pc' = "closed"
    /\ op' = "close_control_file"
    /\ UNCHANGED <<now, storeVars, result, cacheVars, start_button, stop_button, posted,
                   timer_active, timer_next, timer_connected, adc_reader,
                   dc_experiment_id, exportVars, adcVars, sigVars, figVars, f_control, last_df, f_df,
                   queries, go_hist>>

\* read_control_file that answers a failed read with STOP_SIGNAL
read_control_file_DefaultPaused(io) ==
    /\ c_calls < MaxPolls
    /\ c_calls' = c_calls + 1
    /\ f_control' = IF io = "OSError" THEN STOP_SIGNAL ELSE control
    /\ result' = "ok"
    /\ op' = "read_control_file"
    /\ UNCHANGED <<now, storeVars, cached_data, last_datetime, current_datetime,
                   c_pc, c_id, c_seen, ctlVars, exportVars, adcVars, sigVars, figVars,
                   w_pc, last_df, f_df, queries, go_hist>>

\* read_control_file, the first call of a poll (c_calls counts the polls):
\* the stripped content of the file, or the default "1" when the file
\* cannot be read
read_control_file(io) ==
    /\ c_calls < MaxPolls
    /\ c_calls' = c_calls + 1
    /\ f_control' = IF io = "OSError" THEN GO_SIGNAL ELSE control
    /\ result' = "ok"
    /\ op' = "read_control_file"
    /\ UNCHANGED <<now, storeVars, cached_data, last_datetime, current_datetime,
                   c_pc, c_id, c_seen, ctlVars, exportVars, adcVars, sigVars, figVars,
                   w_pc, last_df, f_df, queries, go_hist>>

\* the GO_SIGNAL branch of fetch_data: the store is queried, the cache is
\* updated (handle_data_update) and a frame that was found is remembered
FetchNew(id) ==
    LET df == IF LatestIsNone(id, None) THEN <<>> ELSE <<latest_readings(id, None)>>
    IN  /\ queries' = queries + 1
        /\ last_datetime' = current_datetime
        /\ current_datetime' = now
        /\ update_cache(id, current_datetime)
        /\ last_df' = IF df # <<>> THEN df ELSE last_df
        /\ f_df' = df
        /\ go_hist' = [last |-> <<df>>, found |-> IF df # <<>> THEN df ELSE go_hist.found]

\* the branches of fetch_data that fetch nothing
FetchNothing(df) ==
    /\ f_df' = df
    /\ UNCHANGED <<queries, last_datetime, current_datetime, cached_data, last_df, go_hist>>

\* fetch_data whose STOP_SIGNAL branch fetches like the GO_SIGNAL branch
fetch_data_FetchesWhenPaused(id, ctl) ==
    /\ queries < MaxCalls
    /\ IF ctl \in {STOP_SIGNAL, GO_SIGNAL} THEN FetchNew(id)
       ELSE FetchNothing(<<EmptyFrame>>)
    /\ result' = "ok"
    /\ op' = "fetch_data"
    /\ UNCHANGED <<now, storeVars, c_pc, c_id, c_seen, c_calls, ctlVars, exportVars,
                   adcVars, sigVars, figVars, w_pc, f_control>>

\* fetch_data(experiment_id, control); at most MaxCalls polls query the store
fetch_data(id, ctl) ==
    /\ ctl = GO_SIGNAL => queries < MaxCalls
    /\ IF ctl = STOP_SIGNAL
       THEN FetchNothing(IF last_df = <<>> THEN <<EmptyFrame>> ELSE last_df)
       ELSE IF ctl = GO_SIGNAL THEN FetchNew(id)
       ELSE FetchNothing(<<EmptyFrame>>)
    /\ result' = "ok"
    /\ op' = "fetch_data"
    /\ UNCHANGED <<now, storeVars, c_pc, c_id, c_seen, c_calls, ctlVars, exportVars,
                   adcVars, sigVars, figVars, w_pc, f_control>>

\* the values read_control_file can hand to fetch_data
Controls == {GO_SIGNAL, STOP_SIGNAL, ""}

\* the consumer's fetches beside the producer's running experiment
NextChart ==
    \/ Tick
    \/ \E name \in Names : start_experiment(name)
    \/ \E val \in Values : write_reading_begin(val)
    \/ write_reading_commit
    \/ \E id \in ExpIds, ctl \in Controls : fetch_data(id, ctl)

SpecChart == Init /\ [][NextChart]_vars

\* the control file between a writer and the consumer's reads
NextSignal ==
    \/ \E sig \in {START_SIGNAL, STOP_SIGNAL} : open_control_file(sig)
    \/ close_control_file
    \/ \E io \in IOResults : read_control_file(io)

SpecSignal == Init /\ [][NextSignal]_vars

(***************************************************************************)
(* The controller's start and stop transitions with a control file that    *)
(* may fail to open, beside a consumer that reads it.                      *)
(***************************************************************************)
NextCtlIO ==
    \/ \E name \in Names : start_button_clicked(name)
    \/ stop_button_clicked
    \/ \E dev \in Devices, io \in IOResults : on_experiment_started(dev, io)
    \/ \E io \in IOResults : on_experiment_stopped(io)
    \/ \E io \in IOResults : read_control_file(io)

SpecCtlIO == InitCtl /\ [][NextCtlIO]_vars

(***************************************************************************)
(* Properties of the store.                                                *)
(***************************************************************************)
\* C1: whatever start_experiment, stop_experiment, write_reading and
\* delete_experiment calls are made on one PmtDb, at most one experiment
\* row has end = NULL.
C1_SingleOpenExperiment == Cardinality(OpenExperiments) <= 1

\* an experiment is open after an earlier one was stopped
C1_Witness ==
    /\ Cardinality(OpenExperiments) = 1
    /\ \E e \in experiment : e.end # None

\* C2: a start_experiment call made while an experiment is active raises
\* ValueError and changes neither the experiment table, nor the active id,
\* nor the reading table.
C2_StartWhileActiveFails ==
    [][(op' = "start_experiment" /\ experiment_id # None)
          => /\ result' = "ValueError"
             /\ experiment' = experiment
             /\ experiment_id' = experiment_id
             /\ reading' = reading]_vars

\* a start_experiment call was refused while an experiment was active
C2_Witness ==
    /\ op = "start_experiment"
    /\ result = "ValueError"
    /\ experiment_id # None
    /\ OpenExperiments # {}

\* C3: a stop_experiment call made while no experiment is active raises
\* ValueError, changes no experiment row and leaves the active id empty.
C3_StopWhileIdleFails ==
    [][(op' = "stop_experiment" /\ experiment_id = None)
          => /\ result' = "ValueError"
             /\ experiment' = experiment
             /\ experiment_id' = None]_vars

\* a stop_experiment call was refused with no experiment active, rows present
C3_Witness ==
    /\ op = "stop_experiment"
    /\ result = "ValueError"
    /\ experiment_id = None
    /\ experiment # {}

(***************************************************************************)
(* Properties of the cache.                                                *)
(***************************************************************************)
IsSorted(f) == \A i \in 1 .. (Len(f) - 1) : f[i].ts <= f[i + 1].ts

NoRepeats(f) == \A i, j \in 1 .. Len(f) : i # j => f[i] # f[j]

\* C4: with producer writes and consumer handle_data_update calls
\* interleaved in any way, no reading occurs twice in a cached frame.
C4_NoDuplicateRows == \A id \in DOMAIN cached_data : NoRepeats(cached_data[id])

\* C5: when a handle_data_update(id) call has returned, every reading of id
\* that was committed before the call began is in the cached frame of id.
C5_NoCommittedRowSkipped ==
    (op = "handle_data_update" /\ ExperimentExists(c_id))
        => \A i \in 1 .. c_seen :
              reading[i].experiment = c_id
                  => RelRow(reading[i], ExperimentRow(c_id).start)
                         \in SeqToSet(get_cached_data(c_id))

\* C6: right after handle_completed_experiment(id) the cached frame of id
\* holds exactly the readings written for id, each once, whatever
\* handle_data_update calls came before.
C6_CompletedRoundTrip ==
    op = "handle_completed_experiment"
        => /\ SeqToSet(get_cached_data(c_id)) = SeqToSet(latest_readings(c_id, None))
           /\ Len(get_cached_data(c_id)) = Len(latest_readings(c_id, None))

\* C7: the watermark is per experiment: the first handle_data_update of an
\* experiment merges every reading of it committed so far, whatever calls
\* were made for other experiments.
C7_FirstUpdateFetchesAll ==
    [][(op' = "handle_data_update" /\ c_id \notin DOMAIN cached_data)
          => cached_data'[c_id] = latest_readings(c_id, None)]_vars

\* C8: a cached frame never gets shorter and its relative timestamps are
\* always in non-decreasing order.
C8_FrameGrowsSorted ==
    /\ [](\A id \in DOMAIN cached_data : IsSorted(cached_data[id]))
    /\ [][\A id \in DOMAIN cached_data :
             Len(cached_data'[id]) >= Len(cached_data[id])]_vars

\* C9: a handle_data_update whose fetch yields no data leaves the cache as
\* it was: a frame keeps its rows, an id without a frame still has none.
C9_EmptyFetchChangesNothing ==
    [][(op' = "handle_data_update" /\ LatestIsNone(c_id, last_datetime))
          => cached_data' = cached_data]_vars

(***************************************************************************)
(* Properties of the controller.                                           *)
(***************************************************************************)
\* C10: once stop_experiment has committed, write_reading is not called any
\* more: the sampling timer is cancelled before stop_experiment is called,
\* so the timer is never running while the store has no active experiment.
C10_NoWriteAfterStop ==
    /\ [](timer_active => experiment_id # None)
    /\ [][op' = "on_timeout" => experiment_id # None]_vars

\* C11: when the device read of a timer tick fails while an experiment is
\* running, the controller goes to Idle in that step (the timer is
\* cancelled and the store's experiment is stopped), and the step that
\* follows the failed read, clock ticks aside, is never a sampling write.
C11_ReadFailureStops ==
    /\ [][(op' = "on_timeout_read_error" /\ experiment_id # None)
             => (~timer_active' /\ experiment_id' = None)]_vars
    /\ [][(result = "OSError" /\ op' = "on_timeout") => result' # "ok"]_vars

C13_ReadingsReferenceExperiments ==
    /\ [](\A i \in 1 .. Len(reading) : ExperimentExists(reading[i].experiment))
    /\ [][\A i \in 1 .. Len(reading), j \in 1 .. Len(reading') :
             reading'[j].ts = reading[i].ts => reading'[j] = reading[i]]_vars

\* C14: delete_experiment(id) on an existing experiment removes the
\* experiment row and every reading row of it; afterwards
\* latest_readings(id) reports nothing found and get_experiments does not
\* list id.
C14_DeleteRemovesReadings ==
    [][\A id \in ExpIds :
          (delete_experiment(id) /\ ExperimentExists(id))
              => /\ \A e \in experiment' : e.id # id
                 /\ \A i \in 1 .. Len(reading') : reading'[i].experiment # id
                 /\ LatestIsNone(id, None)'
                 /\ \A t \in get_experiments' : t[1] # id]_vars

\* C15: delete_experiment(id) on an id that names no experiment row ends
\* with an error for the caller and changes no experiment or reading row.
C15_DeleteMissingFails ==
    [][\A id \in ExpIds :
          (delete_experiment(id) /\ ~ExperimentExists(id))
              => /\ result' # "ok"
                 /\ experiment' = experiment
                 /\ reading' = reading]_vars

\* C16: with start_experiment and stop_experiment calls alternating (no
\* experiment is deleted), each start_experiment returns an id larger than
\* every id returned before, namely the previous id plus one.
C16_IdsIncrease ==
    [][(op' = "start_experiment" /\ result' = "ok")
          => /\ \A i \in returned : i < experiment_id'
             /\ returned # {} => experiment_id' = SetMax(returned) + 1]_vars

\* a second experiment was started after the first was stopped
C16_Witness ==
    /\ op = "start_experiment"
    /\ result = "ok"
    /\ experiment_id = 2
    /\ returned = {1, 2}
    /\ \E e \in experiment : e.id = 1 /\ e.end # None

\* C17: whatever start_experiment, stop_experiment and delete_experiment
\* calls are made, start_experiment never returns an id that an earlier
\* start_experiment returned, also when that experiment was deleted since.
C17_IdsNeverReused ==
    [][(op' = "start_experiment" /\ result' = "ok")
          => experiment_id' \notin returned]_vars

(***************************************************************************)
(* Properties of latest_readings and write_reading.                        *)
(***************************************************************************)
\* the values a caller passes as since: None or a datetime
Sinces == {None} \cup (0 .. MaxTime)

\* r was written while the experiment row e was the active experiment: it
\* carries e's id and was stamped between e's start and e's end
WrittenFor(r, e) ==
    /\ r.experiment = e.id
    /\ r.ts >= e.start
    /\ e.end = None \/ r.ts <= e.end

\* C18: for an existing experiment e, latest_readings(e, since) returns
\* exactly the readings that were written for e and, when since is given,
\* have ts > since: every returned row is such a reading (never one
\* written for another experiment) and every such reading is returned.
C18_LatestReadingsOfExperiment ==
    \A id \in ExpIds, since \in Sinces :
        ExperimentExists(id) =>
            LET e == ExperimentRow(id)
                rows == latest_readings(id, since)
                wanted == {r \in SeqToSet(reading) :
                              r.experiment = id /\ (since = None \/ r.ts > since)}
            IN  /\ \A r \in wanted : WrittenFor(r, e)
                /\ SeqToSet(rows) = {RelRow(r, e.start) : r \in wanted}
                /\ Len(rows) = Cardinality(wanted)

\* C19: latest_readings answers an id without experiment row with "not
\* found" (None) and an existing experiment without a reading after since
\* with an empty success, so that the two answers differ.
C19_NotFoundDiffersFromEmpty ==
    \A id \in ExpIds, since \in Sinces :
        /\ ~ExperimentExists(id) => LatestIsNone(id, since)
        /\ (ExperimentExists(id) /\ SelectSeq2(reading, id, since) = <<>>)
               => ~LatestIsNone(id, since)

LastRow(rows) == rows[Len(rows)]

C22_MarkExported ==
    [][\A id \in ExpIds \cup {None} :
          mark_exported(id) =>
              IF id # None /\ ExperimentExists(id)
              THEN /\ result' = "True"
                   /\ \A e \in experiment' : e.id = id => e.exported
                   /\ {e \in experiment' : e.id # id} = {e \in experiment : e.id # id}
                   /\ {[e EXCEPT !.exported = TRUE] : e \in ExperimentRows(id)}
                          = {e \in experiment' : e.id = id}
                   /\ reading' = reading
              ELSE /\ result' = "False"
                   /\ experiment' = experiment
                   /\ reading' = reading]_vars

C22_Witness ==
    /\ op = "mark_exported"
    /\ result = "True"
    /\ \E e \in experiment : e.exported
    /\ \E e \in experiment : ~e.exported

\* C23: export_data_single sets an experiment's exported flag only with
\* the CSV file written: a call that flips a flag flips that of its own
\* experiment only and leaves the file behind, and a call for an experiment
\* without readings, for a missing experiment, or whose file write fails
\* leaves every experiment row unchanged.
C23_ExportedOnlyAfterExport ==
    [][\A id \in ExpIds, io \in IOResults :
          export_data_single(id, io) =>
              /\ (LatestIsNone(id, None) \/ io = "OSError") => experiment' = experiment
              /\ \A e \in experiment' :
                     (e.exported /\ e \notin experiment) =>
                         /\ e.id = id
                         /\ io = "ok"
                         /\ CsvName(e) \in csv_files']_vars

C23_Witness ==
    /\ op = "export_data_single"
    /\ \E e \in experiment : e.exported /\ CsvName(e) \in csv_files
    /\ \E e \in experiment : ~e.exported /\ \E r \in SeqToSet(reading) : r.experiment = e.id


\* the object ids of the reader instances built so far
InstanceIds == {instances[c].oid : c \in DOMAIN instances}

\* C24: constructing a reader of a variant that was constructed before
\* returns the instance of the earlier construction without another call
\* of initialize_adc (the bus is not opened again), and constructing a
\* variant for the first time returns an instance that no other variant has.
C24_ReaderSingleton ==
    [][\A cls \in Variants, config \in ReaderConfigs, dev \in Devices :
          ADCReader_new(cls, config, dev) =>
              IF cls \in DOMAIN instances
              THEN /\ adc_ret' = instances[cls].oid
                   /\ bus_opens' = bus_opens
                   /\ instances' = instances
              ELSE /\ adc_ret' \notin InstanceIds
                   /\ bus_opens' = bus_opens + 1
                   /\ \A c \in DOMAIN instances : instances'[c] = instances[c]]_vars

C24_Witness ==
    /\ op = "ADCReader"
    /\ Cardinality(DOMAIN instances) = 3
    /\ Cardinality(InstanceIds) = 3
    /\ bus_opens = 3
    /\ adc_ret = instances["SingleShotADCReader"].oid
    /\ adc_ret < 3

C26_ConfigCoercion ==
    op = "ADCConfig" =>
        LET a == adc_config.args
            c == adc_config.config
        IN  /\ result = "ok"
            /\ c.i2c_bus = a.i2c_bus
            /\ c.address = IF a.address \in {72, 73, 74, 75} THEN a.address ELSE 72
            /\ c.gain = IF a.gain \in {0, 1, 2, 4, 8, 16} THEN a.gain ELSE 0
            /\ c.data_rate = IF a.data_rate \in 0 .. 7 THEN a.data_rate ELSE 4
            /\ c.poll_mode.enum
            /\ c.poll_mode.v = IF a.poll_mode.v \in {0, 1} THEN a.poll_mode.v ELSE 1

C26_Witness ==
    /\ op = "ADCConfig"
    /\ adc_config.args.address = 76
    /\ adc_config.args.gain = 16
    /\ adc_config.args.data_rate = 9
    /\ adc_config.args.poll_mode = [enum |-> FALSE, v |-> 2]
    /\ adc_config.args.i2c_bus = 3
    /\ adc_config.config = [i2c_bus |-> 3, address |-> 72, gain |-> 16,
                            data_rate |-> 4, poll_mode |-> poll_mode_single]


(***************************************************************************)
(* Properties of the Pause/Resume signal.                                  *)
(***************************************************************************)
\* C27: the controller sets the signal on every transition and only there:
\* a start that completes leaves START_SIGNAL in the control file, a stop
\* that completes leaves STOP_SIGNAL, no other step changes the file, and
\* the file holds START_SIGNAL only while an experiment is running.
C27_SignalFollowsTransitions ==
    /\ [][(op' = "initiate_data_capture" /\ result' = "ok") => control' = START_SIGNAL]_vars
    /\ [][(op' = "terminate_data_capture" /\ result' = "ok") => control' = STOP_SIGNAL]_vars
    /\ [][control' # control
             => op' \in {"initiate_data_capture", "terminate_data_capture"}]_vars
    /\ [](control = START_SIGNAL => experiment_id # None)


\* C28: a consumer read of the control file that runs while the controller
\* writes it observes the old or the new value, that is "1" or "0", never
\* an empty or otherwise invalid value.
C28_ReadSeesValidSignal ==
    [][\A io \in IOResults :
          read_control_file(io) => f_control' \in {START_SIGNAL, STOP_SIGNAL}]_vars

\* C29: signal I/O failures never reach the caller: a read that fails
\* returns START_SIGNAL, and a handler whose write fails leaves the file as
\* it was and still completes: on_experiment_started starts the timer of
\* an available device (or clicks Stop for an unavailable one) and
\* on_experiment_stopped stops the timer, each consuming its queue entry.
C29_SignalIOFailuresContained ==
    /\ [][\A io \in IOResults :
             (read_control_file(io) /\ io = "OSError")
                 => (f_control' = START_SIGNAL /\ result' = "ok")]_vars
    /\ [][\A dev \in Devices :
             on_experiment_started(dev, "OSError")
                 => /\ control' = control
                    /\ adc_reader' = "ok" => (timer_active' /\ timer_connected' > 0)
                    /\ adc_reader' = "failed" => (experiment_id' = None /\ ~stop_button')
                    /\ Len(posted') >= Len(posted) - 1]_vars
    /\ [][on_experiment_stopped("OSError")
             => /\ control' = control
                /\ ~timer_active'
                /\ posted' = Tail(posted)]_vars

\* a stop has completed although its write failed: the queue is empty, the
\* timer is off, the experiment is closed and the file still holds "1"
C29_Witness ==
    /\ op = "on_experiment_stopped"
    /\ control = START_SIGNAL
    /\ posted = <<>>
    /\ ~timer_active
    /\ experiment_id = None
    /\ experiment # {}
    /\ start_button

C31_RunningPollYieldsFrame ==
    [][\A id \in ExpIds :
          fetch_data(id, GO_SIGNAL) =>
              /\ result' = "ok"
              /\ f_df' # <<>>
              /\ LatestIsNone(id, None) => f_df' \in {<<EmptyFrame>>, last_df}]_vars


(***************************************************************************)
(* Properties of a start.                                                  *)
(***************************************************************************)
\* C32: a successful start writes one reading for the new experiment at
\* once, before the first timer tick: when the start transition completes
\* (on_experiment_started has started the timer for the running
\* experiment) the store holds a reading of that experiment.
C32_ImmediateFirstReading ==
    [][(op' = "on_experiment_started" /\ timer_active' /\ experiment_id' # None)
          => \E r \in SeqToSet(reading') : r.experiment = experiment_id']_vars


\* C33: every successful start emits exactly one capture-started
\* notification, after start_experiment returned, whose payload is the id
\* start_experiment returned, which is the active experiment id; a start
\* that fails emits none.  So the notifications are, in order, the ids the
\* successful starts returned.
C33_OneNotificationPerStart ==
    /\ [][\A name \in Names :
             create_experiment(name) =>
                 IF result' = "ok"
                 THEN /\ emitted' = Append(emitted, experiment_id')
                      /\ experiment_id' \in returned'
                      /\ dc_experiment_id' = experiment_id'
                      /\ ExperimentExists(experiment_id)'
                 ELSE emitted' = emitted]_vars
    /\ [][emitted' # emitted => op' = "create_experiment"]_vars
    /\ [](SeqToSet(emitted) = returned)

C33_Witness ==
    /\ op = "create_experiment"
    /\ result = "ValueError"
    /\ Len(emitted) = 2
    /\ emitted[2] = experiment_id

\* C34: downsample_data returns the full frame when it has at most
\* max_points rows and otherwise exactly the rows at positions 0, step,
\* 2*step, ... (one row for every started group of step rows); in both
\* cases the frame passed in keeps all of its rows.
C34_DownsampleEveryNthRow ==
    [][\A step \in Steps, max_points \in Thresholds :
          call_downsample_data(step, max_points) =>
              /\ Len(acc_df) <= max_points => ds_out' = acc_df
              /\ Len(acc_df) > max_points =>
                    /\ Len(ds_out') = (Len(acc_df) + step - 1) \div step
                    /\ \A k \in 1 .. Len(ds_out') :
                          ds_out'[k] = acc_df[(k - 1) * step + 1]
              /\ acc_df' = acc_df]_vars

C34_Witness ==
    /\ op = "downsample_data"
    /\ Len(acc_df) = 4
    /\ acc_df[1] # acc_df[4]
    /\ ds_out = <<acc_df[1], acc_df[4]>>


\* C35: after clear_cache(id) the accumulated frame for id is empty
\* (get_cached_data(id) returns an empty frame) and the frames of all other
\* experiment ids are unchanged.
C35_ClearCacheEmptiesFrame ==
    [][\A id \in ExpIds :
          clear_cache(id) =>
              /\ get_cached_data(id)' = initialize_empty_cache
              /\ \A other \in ExpIds \ {id} :
                    get_cached_data(other)' = get_cached_data(other)]_vars


\* C36: the store never wedges: in every state reachable by
\* start_experiment, stop_experiment, write_reading and delete_experiment
\* calls, stop_experiment succeeds whenever an experiment is active and
\* start_experiment succeeds whenever none is - also when the active
\* experiment's row was deleted while it was running.
C36_StoreNeverWedges ==
    /\ [][(stop_experiment /\ experiment_id # None) => result' = "ok"]_vars
    /\ [][\A name \in Names :
             (start_experiment(name) /\ experiment_id = None) => result' = "ok"]_vars

\* C37: in every reachable state PmtDb.experiment_id is either None or the
\* id of an experiment row that exists in the store and has end == null.
C37_ActiveIdNamesOpenRow ==
    \/ experiment_id = None
    \/ \E e \in experiment : e.id = experiment_id /\ e.end = None


\* C38: the reader that get_device(config, channel, period) returns at the
\* start of an experiment operates with the configuration passed in that
\* call - also when a reader of the same variant was already constructed
\* for an earlier experiment with a different configuration.
C38_ReaderUsesPassedConfig ==
    [][\A config \in ReaderConfigs, mock \in BOOLEAN, dev \in Devices :
          ADCConfigManager_get_device(config, mock, dev) =>
              \A cls \in DOMAIN instances' :
                  (instances'[cls].oid = adc_ret' /\ instances'[cls].is_initialized)
                      => instances'[cls].config = config]_vars

\* C39: a failed device initialisation is permanent for the process: once
\* the first construction of a reader variant left it non-operational,
\* is_operational() of that variant never becomes true again, whatever
\* configuration later requests pass.
C39_FailedInitIsPermanent ==
    [][\A cls \in Variants :
          (cls \in DOMAIN instances /\ ~instances[cls].is_initialized)
              => (cls \in DOMAIN instances' /\ ~instances'[cls].is_initialized)]_vars

\* a later request has returned the older, still non-operational reader
C39_Witness ==
    /\ op = "ADCReader"
    /\ \E cls \in DOMAIN instances :
          /\ ~instances[cls].is_initialized
          /\ adc_ret = instances[cls].oid
          /\ instances[cls].oid < Cardinality(DOMAIN instances)

====
